---- MODULE Spec2Model ----
(***************************************************************************)
(* State-machine model of src/app/page.tsx (AudioWaveformAnalyzer): the    *)
(* recording life cycle, the key-press timeline, the selection, the        *)
(* viewport (zoom / pan), hit-testing and segment export.                  *)
(*                                                                         *)
(* Number representation.  Times are integers in milliseconds: an event    *)
(* time is (Date.now() - recordingStartTimeRef) / 1000 seconds, so it is a *)
(* whole number of milliseconds.  zoomLevel is kept in units of            *)
(* 1 / ZoomUnit.  Every product or quotient that the code computes in      *)
(* IEEE doubles is rounded to that grid by RoundDiv, one rounding per      *)
(* arithmetic operation, as the double arithmetic rounds per operation.    *)
(* Sample amplitudes are integers in units of 1 / AmpUnit.                 *)
(***************************************************************************)
EXTENDS Integers, Sequences, FiniteSets, TLC

\* ------------------------------------------------------------------ bounds
MaxClock == 1000          \* longest recording followed, in milliseconds
MaxKeys == 2              \* key presses recorded in one session
MaxRecorders == 2         \* MediaRecorder objects created in one session
MaxInFlight == 1          \* processAudioBlob calls awaiting their decode
ZoomUnit == 5             \* zoomLevel grid: 1 / ZoomUnit
MaxLoops == 2             \* playhead update loops pending at one time

\* input domains
ClockSteps == {500}
SampleRates == {5}
EscapeKey == [key |-> "Escape", code |-> "Escape"]
Keys == {[key |-> "a", code |-> "KeyA"], EscapeKey}
ClickXs == {0, 480, 540, 600}
MouseXs == {0, 600}
Files ==
  { [name |-> "short", type |-> "audio/wav", duration |-> 200, decodable |-> TRUE],
    [name |-> "corrupt", type |-> "audio/ogg", duration |-> 400, decodable |-> FALSE],
    [name |-> "text", type |-> "text/plain", duration |-> 400, decodable |-> FALSE] }
LongFile == [name |-> "long", type |-> "audio/flac", duration |-> 400, decodable |-> TRUE]
ViewFiles == {LongFile} \cup {f \in Files : f.decodable}

\* ------------------------------------------------------- program constants
MsPerSecond == 1000       \* (Date.now() - start) / 1000
HalfWindow == 500         \* currentTime -/+ 0.5
HitThreshold == 100       \* distance < 0.1
CanvasWidth == 1200       \* <canvas width={1200}>
ZoomMin == 1
ZoomMax == 20
AmpUnit == 1000           \* amplitude grid of the decoded samples

\* ----------------------------------------------------------------- helpers
Max(a, b) == IF a >= b THEN a ELSE b
Min(a, b) == IF a <= b THEN a ELSE b
Abs(a) == IF a < 0 THEN -a ELSE a

\* a / b rounded to the nearest grid point (b > 0)
RoundDiv(a, b) == (2 * a + b) \div (2 * b)

\* Math.floor(t * sampleRate), t in milliseconds
FloorSample(t, sampleRate) == (t * sampleRate) \div MsPerSecond

\* the smallest whole number of samples that covers ms milliseconds
CeilSample(ms, sampleRate) == (ms * sampleRate + MsPerSecond - 1) \div MsPerSecond

\* the content the platform decoder delivers: sample i of a blob
DecodedSample(seed, i) == (((i * 3 + seed) % 5) - 2) * (AmpUnit \div 2)

\* AudioData built by processAudioBlob from the decoded AudioBuffer
NullAudio == [length |-> 0, sampleRate |-> 0, duration |-> 0, samples |-> <<>>]

MakeAudioData(length, sampleRate, seed) ==
  [ length |-> length,
    sampleRate |-> sampleRate,
    duration |-> (length * MsPerSecond) \div sampleRate,
    samples |-> [i \in 1..length |-> DecodedSample(seed, i - 1)] ]

VARIABLES
  elapsed,                \* Date.now() - recordingStartTimeRef.current while
                          \* a recording is active, 0 otherwise
  audioContextRef,        \* the AudioContext: its sample rate
  isRecording,
  audioData,
  keyPresses,
  selectedKeyPresses,
  zoomLevel,
  panOffset,
  isDragging,
  lastMouseX,
  mediaRecorderRef,       \* 0 (null) or the index of a recorder
  pendingStarts,          \* startRecording calls awaiting getUserMedia
  recorders,              \* the MediaRecorder objects created so far
  decoding,               \* processAudioBlob calls awaiting decodeAudioData
  nextId,                 \* source of fresh key-press ids
  toast,                  \* notification raised by the last handler
  download,               \* archive handed to the browser by the last handler
  thrown,                 \* exception that escaped the last handler
  isPlaying,
  currentTime,            \* the playhead shown, in milliseconds
  audioRef,               \* the <audio> element: playing or not, its currentTime
  animationFrameRef,      \* 0 or the update loop whose frame request was made last
  frameRequests           \* the update loops with a frame request pending

vars ==
  << elapsed, audioContextRef, isRecording, audioData, keyPresses,
     selectedKeyPresses, zoomLevel, panOffset, isDragging, lastMouseX,
     mediaRecorderRef, pendingStarts, recorders, decoding, nextId, toast, download,
     thrown, isPlaying, currentTime, audioRef, animationFrameRef, frameRequests >>

\* the session state of the component (everything but the clock and outputs)
session ==
  << isRecording, audioData, keyPresses, selectedKeyPresses, zoomLevel, panOffset,
     isDragging, lastMouseX, mediaRecorderRef, pendingStarts, recorders, decoding >>

viewVars == << zoomLevel, panOffset, isDragging, lastMouseX >>
recVars == << mediaRecorderRef, pendingStarts, recorders >>
playVars == << isPlaying, currentTime, audioRef, animationFrameRef, frameRequests >>

NoToast == "none"
NoDownload == [made |-> FALSE, files |-> <<>>, metadata |-> <<>>]
NoError == "none"
outputs == << toast, download, thrown >>

\* the <audio> element before play() and after a new src was assigned
SilentAudio == [playing |-> FALSE, currentTime |-> 0]

\* requestAnimationFrame(updatePlayhead) by a call of updatePlayhead that no
\* pending loop made: the handle of a new update loop
NewLoop(requests) == CHOOSE l \in 1..(MaxLoops + 1) : l \notin requests /\ \A m \in 1..(l - 1) : m \in requests

\* the effect on [isPlaying, updatePlayhead]: updatePlayhead() when playing
\* (it requests a frame and stores the handle), cancelAnimationFrame of the
\* stored handle otherwise
PlayEffect(playing, requests, handle) ==
  IF playing
    THEN [requests |-> requests \cup {NewLoop(requests)}, handle |-> NewLoop(requests)]
    ELSE [requests |-> requests \ {handle}, handle |-> handle]

Init ==
  /\ elapsed = 0
  /\ audioContextRef \in [sampleRate : SampleRates]
  /\ isRecording = FALSE
  /\ audioData = NullAudio
  /\ keyPresses = <<>>
  /\ selectedKeyPresses = {}
  /\ zoomLevel = ZoomMin * ZoomUnit
  /\ panOffset = 0
  /\ isDragging = FALSE
  /\ lastMouseX = 0
  /\ mediaRecorderRef = 0
  /\ pendingStarts = 0
  /\ recorders = <<>>
  /\ decoding = {}
  /\ nextId = 1
  /\ toast = NoToast
  /\ download = NoDownload
  /\ thrown = NoError
  /\ isPlaying = FALSE
  /\ currentTime = 0
  /\ audioRef = SilentAudio
  /\ animationFrameRef = 0
  /\ frameRequests = {}

\* ------------------------------------------------------------------- clock
\* Time passes.  The program reads the clock as Date.now() -
\* recordingStartTimeRef.current, in handleKeyDown, and the recorder's capture
\* grows with it; both only while isRecording.
Tick ==
  /\ isRecording
  /\ \E d \in ClockSteps : elapsed + d <= MaxClock /\ elapsed' = elapsed + d
  /\ toast' = NoToast
  /\ download' = NoDownload
  /\ thrown' = NoError
  /\ UNCHANGED << audioContextRef, session, nextId >>
  /\ UNCHANGED playVars

\* --------------------------------------------------------------- recording
\* startRecording up to `await getUserMedia`: the Start button or Ctrl+R,
\* both offered only while isRecording is false.
StartRecording ==
  /\ ~isRecording
  /\ pendingStarts + Len(recorders) < MaxRecorders
  /\ pendingStarts' = pendingStarts + 1
  /\ toast' = NoToast
  /\ download' = NoDownload
  /\ thrown' = NoError
  /\ UNCHANGED << elapsed, audioContextRef, isRecording, audioData, keyPresses,
                  selectedKeyPresses, viewVars, mediaRecorderRef, recorders,
                  decoding, nextId >>
  /\ UNCHANGED playVars

\* new MediaRecorder(stream), started: `recorded` is the length of its capture
NewRecorder ==
  [state |-> "recording", recorded |-> 0, stops |-> 0, runs |-> 0,
   onstop |-> "idle", tracks |-> "live"]

\* setKeyPresses([]): the timeline a recording starts with
TimelineAtStartKept(kps) == kps
TimelineAtStart(kps) == <<>>

\* startRecording after getUserMedia resolved
GetUserMediaResolved ==
  /\ pendingStarts > 0
  /\ pendingStarts' = pendingStarts - 1
  /\ recorders' = Append(recorders, NewRecorder)
  /\ mediaRecorderRef' = Len(recorders) + 1
  /\ elapsed' = 0
  /\ keyPresses' = TimelineAtStart(keyPresses)
  /\ isRecording' = TRUE
  /\ toast' = "Recording started"
  /\ download' = NoDownload
  /\ thrown' = NoError
  /\ UNCHANGED << audioContextRef, audioData, selectedKeyPresses, viewVars,
                  decoding, nextId >>
  /\ UNCHANGED playVars

\* a rejection after the timeline was already cleared
GetUserMediaRejectedCleared ==
  /\ pendingStarts > 0
  /\ pendingStarts' = pendingStarts - 1
  /\ keyPresses' = <<>>
  /\ toast' = "Recording failed"
  /\ download' = NoDownload
  /\ thrown' = NoError
  /\ UNCHANGED << elapsed, audioContextRef, isRecording, audioData,
                  selectedKeyPresses, viewVars, mediaRecorderRef, recorders,
                  decoding, nextId >>
  /\ UNCHANGED playVars

\* startRecording when getUserMedia rejected: the catch block
GetUserMediaRejected ==
  /\ pendingStarts > 0
  /\ pendingStarts' = pendingStarts - 1
  /\ toast' = "Recording failed"
  /\ download' = NoDownload
  /\ thrown' = NoError
  /\ UNCHANGED << elapsed, audioContextRef, isRecording, audioData, keyPresses,
                  selectedKeyPresses, viewVars, mediaRecorderRef, recorders,
                  decoding, nextId >>
  /\ UNCHANGED playVars

\* MediaRecorder.stop(): an inactive recorder ignores it
RecorderStop(rec) ==
  IF rec.state = "recording"
    THEN [rec EXCEPT !.state = "inactive", !.recorded = elapsed,
                     !.stops = rec.stops + 1, !.onstop = "queued"]
    ELSE [rec EXCEPT !.stops = rec.stops + 1]

\* the condition under which stopRecording acts
StopGuardNoFlag == mediaRecorderRef # 0
StopGuard == mediaRecorderRef # 0 /\ isRecording

\* stopRecording: a stop signal, in any state
StopRecording ==
  /\ IF StopGuard
       THEN /\ recorders' = [recorders EXCEPT
                               ![mediaRecorderRef] = RecorderStop(recorders[mediaRecorderRef])]
            /\ isRecording' = FALSE
            /\ elapsed' = 0
            /\ toast' = "Recording stopped"
       ELSE /\ UNCHANGED << recorders, isRecording, elapsed >>
            /\ toast' = NoToast
  /\ download' = NoDownload
  /\ thrown' = NoError
  /\ UNCHANGED << audioContextRef, audioData, keyPresses, selectedKeyPresses,
                  viewVars, mediaRecorderRef, pendingStarts, decoding, nextId >>
  /\ UNCHANGED playVars

\* mediaRecorder.onstop up to `await processAudioBlob(blob)`
OnStop(r) ==
  /\ recorders[r].onstop = "queued"
  /\ Cardinality(decoding) < MaxInFlight
  /\ recorders' = [recorders EXCEPT ![r].onstop = "running", ![r].runs = @ + 1,
                                     ![r].recorded = 0]
  /\ decoding' = decoding \cup
       {[src |-> "recorder", rec |-> r, name |-> "recording", type |-> "audio/wav",
         duration |-> recorders[r].recorded,
         decodable |-> TRUE]}
  /\ toast' = NoToast
  /\ download' = NoDownload
  /\ thrown' = NoError
  /\ UNCHANGED << elapsed, audioContextRef, isRecording, audioData, keyPresses,
                  selectedKeyPresses, viewVars, mediaRecorderRef,
                  pendingStarts, nextId >>
  /\ UNCHANGED playVars

\* -------------------------------------------------------- processAudioBlob
\* endTime: Math.min(kp.endTime, audioData.duration)
ClampEndTime(kp, duration) == [kp EXCEPT !.endTime = Min(kp.endTime, duration)]

BlobSeed(job) == IF job.src = "recorder" THEN job.rec ELSE Len(job.name)

\* the AudioData that decodeAudioData yields for a blob
DecodedAudio(job) ==
  MakeAudioData(CeilSample(job.duration, audioContextRef.sampleRate),
                audioContextRef.sampleRate, BlobSeed(job))

\* an onstop that ends without stopping the tracks
AfterProcessTracksLive(job) ==
  IF job.src = "recorder"
    THEN [recorders EXCEPT ![job.rec].onstop = "done"]
    ELSE recorders

\* what follows `await processAudioBlob(blob)` in onstop: the tracks are stopped
AfterProcess(job) ==
  IF job.src = "recorder"
    THEN [recorders EXCEPT ![job.rec].onstop = "done", ![job.rec].tracks = "stopped"]
    ELSE recorders

\* processAudioBlob after decodeAudioData resolved
DecodeResolved(job) ==
  /\ job \in decoding
  /\ job.decodable
  /\ job.duration > 0
  /\ decoding' = decoding \ {job}
  /\ audioData' = DecodedAudio(job)
  /\ keyPresses' = [i \in 1..Len(keyPresses) |->
                      ClampEndTime(keyPresses[i], DecodedAudio(job).duration)]
  /\ recorders' = AfterProcess(job)
  /\ toast' = NoToast
  /\ download' = NoDownload
  /\ thrown' = NoError
  /\ UNCHANGED << elapsed, audioContextRef, isRecording, selectedKeyPresses, viewVars,
                  mediaRecorderRef, pendingStarts, nextId >>
  /\ isPlaying => Cardinality(frameRequests) < MaxLoops
  /\ audioRef' = SilentAudio
  /\ frameRequests' = PlayEffect(isPlaying, frameRequests, animationFrameRef).requests
  /\ animationFrameRef' = PlayEffect(isPlaying, frameRequests, animationFrameRef).handle
  /\ currentTime' = IF isPlaying THEN SilentAudio.currentTime ELSE currentTime
  /\ UNCHANGED isPlaying

\* a catch block that also drops the loaded buffer
DecodeRejectedClearing(job) ==
  /\ job \in decoding
  /\ decoding' = decoding \ {job}
  /\ recorders' = AfterProcess(job)
  /\ audioData' = NullAudio
  /\ toast' = "Audio processing failed"
  /\ download' = NoDownload
  /\ thrown' = NoError
  /\ UNCHANGED << elapsed, audioContextRef, isRecording, keyPresses,
                  selectedKeyPresses, viewVars, mediaRecorderRef,
                  pendingStarts, nextId >>
  /\ UNCHANGED playVars

\* processAudioBlob when decodeAudioData rejected: the catch block
DecodeRejected(job) ==
  /\ job \in decoding
  /\ decoding' = decoding \ {job}
  /\ recorders' = AfterProcess(job)
  /\ toast' = "Audio processing failed"
  /\ download' = NoDownload
  /\ thrown' = NoError
  /\ UNCHANGED << elapsed, audioContextRef, isRecording, audioData, keyPresses,
                  selectedKeyPresses, viewVars, mediaRecorderRef,
                  pendingStarts, nextId >>
  /\ UNCHANGED playVars

\* --------------------------------------------------------- handleFileUpload
validTypesWithText == {"audio/wav", "audio/mp3", "audio/mpeg", "audio/ogg", "audio/flac", "text/plain"}
validTypes == {"audio/wav", "audio/mp3", "audio/mpeg", "audio/ogg", "audio/flac"}

HandleFileUpload(file) ==
  /\ Cardinality(decoding) < MaxInFlight
  /\ IF file.type \in validTypes
       THEN /\ decoding' = decoding \cup
                 {[src |-> "file", rec |-> 0, name |-> file.name, type |-> file.type,
                   duration |-> file.duration, decodable |-> file.decodable]}
            /\ toast' = NoToast
       ELSE /\ decoding' = decoding
            /\ toast' = "Invalid file type"
  /\ download' = NoDownload
  /\ thrown' = NoError
  /\ UNCHANGED << elapsed, audioContextRef, isRecording, audioData, keyPresses,
                  selectedKeyPresses, viewVars, recVars, nextId >>
  /\ UNCHANGED playVars

\* ------------------------------------------------------------ handleKeyDown
NewKeyPress(k, keyTime) ==
  [ id |-> nextId,
    key |-> k.key,
    code |-> k.code,
    time |-> keyTime,
    startTime |-> Max(0, keyTime - HalfWindow),
    endTime |-> keyTime + HalfWindow,
    selected |-> FALSE ]

\* setKeyPresses((prev) => [...prev, keyPress])
PrependKeyPress(prev, keyPress) == << keyPress >> \o prev
AppendKeyPress(prev, keyPress) == Append(prev, keyPress)

\* handleKeyboardShortcuts returns at once while a recording is active
ShortcutsActive == ~isRecording

\* handleKeyDown goes on to log the key: if (!isRecording) return;
\* if (event.repeat) return
LoggedIgnoringRepeat(recording, repeat) == recording
Logged(recording, repeat) == recording /\ ~repeat

\* A key-down without modifiers.  Both window listeners see it:
\* handleKeyboardShortcuts (whose only plain-key case is Escape, which calls
\* stopRecording if isRecording) and handleKeyDown.
KeyEvent(k, repeat) ==
  /\ Logged(isRecording, repeat) => nextId <= MaxKeys
  /\ IF ShortcutsActive /\ k.key = "Escape" /\ isRecording
       THEN /\ recorders' = [recorders EXCEPT
                               ![mediaRecorderRef] = RecorderStop(recorders[mediaRecorderRef])]
            /\ isRecording' = FALSE
            /\ elapsed' = 0
            /\ toast' = "Recording stopped"
            /\ UNCHANGED << keyPresses, nextId >>
       ELSE /\ UNCHANGED << recorders, isRecording, elapsed >>
            /\ toast' = NoToast
            /\ IF Logged(isRecording, repeat)
                 THEN /\ keyPresses' = AppendKeyPress(keyPresses,
                             NewKeyPress(k, elapsed))
                      /\ nextId' = nextId + 1
                 ELSE UNCHANGED << keyPresses, nextId >>
  /\ download' = NoDownload
  /\ thrown' = NoError
  /\ UNCHANGED << audioContextRef, audioData, selectedKeyPresses, viewVars,
                  mediaRecorderRef, pendingStarts, decoding >>
  /\ UNCHANGED playVars

\* a key-down that is no auto-repeat
KeyDown(k) == KeyEvent(k, FALSE)

\* an auto-repeat key-down (event.repeat)
KeyDownRepeat(k) == KeyEvent(k, TRUE)

\* handleKeyUp: it takes the key out of activeKeys, the highlight of the
\* on-screen keyboard, which the model does not follow
KeyUp(k) ==
  /\ toast' = NoToast
  /\ download' = NoDownload
  /\ thrown' = NoError
  /\ UNCHANGED << elapsed, audioContextRef, session, nextId >>
  /\ UNCHANGED playVars

\* ---------------------------------------------------------------- selection
Ids(kps) == {kps[i].id : i \in 1..Len(kps)}
SetSelected(kps, ids) == [i \in 1..Len(kps) |-> [kps[i] EXCEPT !.selected = (kps[i].id \in ids)]]
SetAll(kps, flag) == [i \in 1..Len(kps) |-> [kps[i] EXCEPT !.selected = flag]]

\* newSelected: the id toggled in a copy of selectedKeyPresses
ToggleAddOnly(ids, id) == ids \cup {id}
Toggle(ids, id) == IF id \in ids THEN ids \ {id} ELSE ids \cup {id}

\* Select All of the timeline card (shown while keyPresses is not empty)
SelectAllButton ==
  /\ Len(keyPresses) > 0
  /\ selectedKeyPresses' = Ids(keyPresses)
  /\ keyPresses' = SetAll(keyPresses, TRUE)
  /\ toast' = NoToast
  /\ download' = NoDownload
  /\ thrown' = NoError
  /\ UNCHANGED << elapsed, audioContextRef, isRecording, audioData, viewVars, recVars,
                  decoding, nextId >>
  /\ UNCHANGED playVars

\* Ctrl+A
SelectAllShortcut ==
  /\ ShortcutsActive
  /\ IF Len(keyPresses) > 0
       THEN /\ selectedKeyPresses' = Ids(keyPresses)
            /\ keyPresses' = SetAll(keyPresses, TRUE)
       ELSE UNCHANGED << selectedKeyPresses, keyPresses >>
  /\ toast' = NoToast
  /\ download' = NoDownload
  /\ thrown' = NoError
  /\ UNCHANGED << elapsed, audioContextRef, isRecording, audioData, viewVars, recVars,
                  decoding, nextId >>
  /\ UNCHANGED playVars

DeselectAll ==
  /\ selectedKeyPresses' = {}
  /\ keyPresses' = SetAll(keyPresses, FALSE)
  /\ toast' = NoToast
  /\ download' = NoDownload
  /\ thrown' = NoError
  /\ UNCHANGED << elapsed, audioContextRef, isRecording, audioData, viewVars, recVars,
                  decoding, nextId >>
  /\ UNCHANGED playVars

\* Clear All of the timeline card
ClearAllButton == Len(keyPresses) > 0 /\ DeselectAll

\* Ctrl+D
DeselectAllShortcut == ShortcutsActive /\ DeselectAll

\* Clear Selection of the control bar (shown while a buffer is loaded)
ClearSelectionButton == audioData # NullAudio /\ DeselectAll

\* a click on row i of the timeline card
TimelineRowClick(i) ==
  /\ i \in 1..Len(keyPresses)
  /\ selectedKeyPresses' = Toggle(selectedKeyPresses, keyPresses[i].id)
  /\ keyPresses' = SetSelected(keyPresses, Toggle(selectedKeyPresses, keyPresses[i].id))
  /\ toast' = NoToast
  /\ download' = NoDownload
  /\ thrown' = NoError
  /\ UNCHANGED << elapsed, audioContextRef, isRecording, audioData, viewVars, recVars,
                  decoding, nextId >>
  /\ UNCHANGED playVars

\* ----------------------------------------------------------------- viewport
\* audioData.duration / zoomLevel
VisibleDuration(duration, zoom) == RoundDiv(duration * ZoomUnit, zoom)

\* panOffset + (x / canvas.width) * (audioData.duration / zoomLevel)
PixelToTime(x, duration, zoom, pan) ==
  pan + RoundDiv(x * VisibleDuration(duration, zoom), CanvasWidth)

\* ((t - startTime) / visibleDuration) * width
TimeToPixel(t, duration, zoom, pan) ==
  RoundDiv((t - pan) * CanvasWidth, VisibleDuration(duration, zoom))

\* widths in CSS pixels at which the layout shows the canvas (className
\* "w-full"); its bitmap is always CanvasWidth pixels wide
DisplayWidths == {CanvasWidth, 600}

\* where a marker drawn at bitmap position TimeToPixel(t) appears on screen,
\* measured from rect.left, when the canvas is shown rectWidth pixels wide
MarkerClientX(t, duration, zoom, pan, rectWidth) ==
  RoundDiv(TimeToPixel(t, duration, zoom, pan) * rectWidth, CanvasWidth)

\* Math.max(1, Math.min(20, prev * zoomFactor)), zoomFactor = num / den
WheelZoomUnclamped(prev, num, den) == RoundDiv(prev * num, den)
WheelZoom(prev, num, den) ==
  Max(ZoomMin * ZoomUnit, Min(ZoomMax * ZoomUnit, RoundDiv(prev * num, den)))

\* handleWheel: deltaY > 0 zooms out by 0.9, otherwise in by 1.1
HandleWheel(deltaYPositive) ==
  /\ audioData # NullAudio
  /\ zoomLevel' = IF deltaYPositive THEN WheelZoom(zoomLevel, 9, 10)
                                    ELSE WheelZoom(zoomLevel, 11, 10)
  /\ toast' = NoToast
  /\ download' = NoDownload
  /\ thrown' = NoError
  /\ UNCHANGED << elapsed, audioContextRef, isRecording, audioData, keyPresses,
                  selectedKeyPresses, panOffset, isDragging, lastMouseX, recVars,
                  decoding, nextId >>
  /\ UNCHANGED playVars

\* zoom-in button: Math.min(20, prev * 1.2)
ZoomInButton ==
  /\ audioData # NullAudio
  /\ zoomLevel' = Min(ZoomMax * ZoomUnit, RoundDiv(zoomLevel * 12, 10))
  /\ toast' = NoToast
  /\ download' = NoDownload
  /\ thrown' = NoError
  /\ UNCHANGED << elapsed, audioContextRef, isRecording, audioData, keyPresses,
                  selectedKeyPresses, panOffset, isDragging, lastMouseX, recVars,
                  decoding, nextId >>
  /\ UNCHANGED playVars

\* zoom-out button: Math.max(1, prev / 1.2)
ZoomOutButton ==
  /\ audioData # NullAudio
  /\ zoomLevel' = Max(ZoomMin * ZoomUnit, RoundDiv(zoomLevel * 10, 12))
  /\ toast' = NoToast
  /\ download' = NoDownload
  /\ thrown' = NoError
  /\ UNCHANGED << elapsed, audioContextRef, isRecording, audioData, keyPresses,
                  selectedKeyPresses, panOffset, isDragging, lastMouseX, recVars,
                  decoding, nextId >>
  /\ UNCHANGED playVars

ResetView ==
  /\ audioData # NullAudio
  /\ zoomLevel' = ZoomMin * ZoomUnit
  /\ panOffset' = 0
  /\ toast' = NoToast
  /\ download' = NoDownload
  /\ thrown' = NoError
  /\ UNCHANGED << elapsed, audioContextRef, isRecording, audioData, keyPresses,
                  selectedKeyPresses, isDragging, lastMouseX, recVars, decoding,
                  nextId >>
  /\ UNCHANGED playVars

HandleMouseDown(clientX) ==
  /\ audioData # NullAudio
  /\ isDragging' = TRUE
  /\ lastMouseX' = clientX
  /\ toast' = NoToast
  /\ download' = NoDownload
  /\ thrown' = NoError
  /\ UNCHANGED << elapsed, audioContextRef, isRecording, audioData, keyPresses,
                  selectedKeyPresses, zoomLevel, panOffset, recVars, decoding, nextId >>
  /\ UNCHANGED playVars

\* -(deltaX / canvas.width) * (audioData.duration / zoomLevel)
PanDelta(deltaX, duration, zoom) ==
  -RoundDiv(deltaX * VisibleDuration(duration, zoom), CanvasWidth)

\* Math.max(0, Math.min(duration - duration / zoomLevel, prev + panDelta))
ClampPanNoUpper(requested, duration, zoom) == Max(0, requested)
ClampPan(requested, duration, zoom) ==
  Max(0, Min(duration - VisibleDuration(duration, zoom), requested))

HandleMouseMove(clientX) ==
  /\ audioData # NullAudio
  /\ IF isDragging
       THEN /\ panOffset' = ClampPan(panOffset + PanDelta(clientX - lastMouseX,
                                                          audioData.duration, zoomLevel),
                                     audioData.duration, zoomLevel)
            /\ lastMouseX' = clientX
       ELSE UNCHANGED << panOffset, lastMouseX >>
  /\ toast' = NoToast
  /\ download' = NoDownload
  /\ thrown' = NoError
  /\ UNCHANGED << elapsed, audioContextRef, isRecording, audioData, keyPresses,
                  selectedKeyPresses, zoomLevel, isDragging, recVars, decoding, nextId >>
  /\ UNCHANGED playVars

\* handleMouseUp, also bound to onMouseLeave
HandleMouseUp ==
  /\ audioData # NullAudio
  /\ isDragging' = FALSE
  /\ toast' = NoToast
  /\ download' = NoDownload
  /\ thrown' = NoError
  /\ UNCHANGED << elapsed, audioContextRef, isRecording, audioData, keyPresses,
                  selectedKeyPresses, zoomLevel, panOffset, lastMouseX, recVars,
                  decoding, nextId >>
  /\ UNCHANGED playVars

\* -------------------------------------------------------------- drawWaveform
CanvasHeight == 350       \* <canvas height={350}>

\* the readings of Date.now() at which the canvas is drawn, in ms
DrawTimes == {0, 250, 500}

\* Math.sin(time * 4) for time = now / 1000, in units of 1 / 1000
SinFourTimes(now) ==
  CASE now = 0 -> 0
    [] now = 250 -> 841
    [] now = 500 -> 909

\* alpha = 0.3 + 0.2 * Math.sin(time * 4), in units of 1 / 1000
BorderAlpha(now) == 300 + RoundDiv(200 * SinFourTimes(now), 1000)

\* endTime = Math.min(duration, startTime + visibleDuration), startTime = panOffset
DrawEndTime(duration, zoom, pan) == Min(duration, pan + VisibleDuration(duration, zoom))

\* startSample, endSample and visibleSamples of the visible range
DrawStartSample(audio, pan) == FloorSample(pan, audio.sampleRate)
DrawEndSample(audio, zoom, pan) ==
  FloorSample(DrawEndTime(audio.duration, zoom, pan), audio.sampleRate)
VisibleSamples(audio, zoom, pan) ==
  DrawEndSample(audio, zoom, pan) - DrawStartSample(audio, pan)

\* a variant that rounds the column's offset up
SampleIndexCeil(x, startSample, visibleSamples) ==
  startSample + ((x * visibleSamples + CanvasWidth - 1) \div CanvasWidth)

\* sampleIndex = startSample + Math.floor((x / width) * visibleSamples)
SampleIndex(x, startSample, visibleSamples) ==
  startSample + ((x * visibleSamples) \div CanvasWidth)

\* if (sampleIndex < samples.length): the column reads samples[sampleIndex]
ColumnReads(x, startSample, visibleSamples, length) ==
  SampleIndex(x, startSample, visibleSamples) < length

\* the columns of the waveform loops (x++) and of the spectrogram loop (x += 2)
WaveColumns == [i \in 1..CanvasWidth |-> i - 1]
BarColumns == [i \in 1..(CanvasWidth \div 2) |-> 2 * (i - 1)]

\* the bars of the spectrogram view
SpectrogramBars(audio, zoom, pan) ==
  LET startSample == DrawStartSample(audio, pan)
      visibleSamples == VisibleSamples(audio, zoom, pan)
      read == SelectSeq(BarColumns,
                LAMBDA x : ColumnReads(x, startSample, visibleSamples, audio.length))
  IN [i \in 1..Len(read) |->
        LET amplitude == Abs(audio.samples[SampleIndex(read[i], startSample,
                                                        visibleSamples) + 1])
            barHeight == RoundDiv(amplitude * CanvasHeight * 8, AmpUnit * 10)
        IN [ op |-> "fillRect",
             fillStyle |-> << "hsl", 220 + RoundDiv(amplitude * 60, AmpUnit), 80, 60 >>,
             x |-> read[i],
             y |-> (CanvasHeight \div 2) - (barHeight \div 2),
             w |-> 2,
             h |-> barHeight ]]

\* the lineTo calls of one pass over the columns of the waveform view
WaveformPath(audio, zoom, pan) ==
  LET startSample == DrawStartSample(audio, pan)
      visibleSamples == VisibleSamples(audio, zoom, pan)
      read == SelectSeq(WaveColumns,
                LAMBDA x : ColumnReads(x, startSample, visibleSamples, audio.length))
  IN [i \in 1..Len(read) |->
        [ op |-> "lineTo",
          x |-> read[i],
          y |-> (CanvasHeight \div 2)
                  - RoundDiv(audio.samples[SampleIndex(read[i], startSample,
                                                       visibleSamples) + 1] * CanvasHeight,
                             2 * AmpUnit) ]]

\* t is drawn: t >= startTime && t <= endTime
InDrawnRange(t, duration, zoom, pan) == t >= pan /\ t <= DrawEndTime(duration, zoom, pan)

\* the playhead line, its indicator and its time text
DrawPlayhead(playhead, duration, zoom, pan) ==
  IF InDrawnRange(playhead, duration, zoom, pan)
    THEN << [ op |-> "line", strokeStyle |-> "#ef4444",
              x |-> TimeToPixel(playhead, duration, zoom, pan) ],
            [ op |-> "arc", fillStyle |-> "#ef4444",
              x |-> TimeToPixel(playhead, duration, zoom, pan) ],
            [ op |-> "fillText", text |-> RoundDiv(playhead, 10),
              x |-> TimeToPixel(playhead, duration, zoom, pan) ] >>
    ELSE << >>

\* the marker of one key press: line, label and, if selected, the highlight
\* with its animated border
DrawMarker(keyPress, duration, zoom, pan, now) ==
  IF InDrawnRange(keyPress.time, duration, zoom, pan)
    THEN << [ op |-> "line",
              strokeStyle |-> IF keyPress.selected THEN "#dc2626" ELSE "#8b5cf6",
              lineWidth |-> IF keyPress.selected THEN 3 ELSE 2,
              x |-> TimeToPixel(keyPress.time, duration, zoom, pan) ],
            [ op |-> "fillText",
              text |-> IF keyPress.key = " " THEN "Space" ELSE keyPress.key,
              x |-> TimeToPixel(keyPress.time, duration, zoom, pan) ] >>
         \o (IF keyPress.selected
               THEN << [ op |-> "fillRect", fillStyle |-> << "rgba", 220, 38, 38, 150 >>,
                         x |-> TimeToPixel(keyPress.startTime, duration, zoom, pan),
                         w |-> TimeToPixel(keyPress.endTime, duration, zoom, pan)
                                 - TimeToPixel(keyPress.startTime, duration, zoom, pan) ],
                       [ op |-> "strokeRect",
                         strokeStyle |-> << "rgba", 220, 38, 38, BorderAlpha(now) >>,
                         x |-> TimeToPixel(keyPress.startTime, duration, zoom, pan),
                         w |-> TimeToPixel(keyPress.endTime, duration, zoom, pan)
                                 - TimeToPixel(keyPress.startTime, duration, zoom, pan) ] >>
               ELSE << >>)
    ELSE << >>

\* keyPresses.forEach from index i on
RECURSIVE DrawMarkers(_, _, _, _, _, _)
DrawMarkers(kps, i, duration, zoom, pan, now) ==
  IF i > Len(kps) THEN << >>
  ELSE DrawMarker(kps[i], duration, zoom, pan, now)
         \o DrawMarkers(kps, i + 1, duration, zoom, pan, now)

\* the eleven time markers with their texts (toFixed(1))
TimeMarkers(duration, zoom, pan) ==
  [k \in 1..11 |->
     [ op |-> "timeMarker",
       x |-> ((k - 1) * CanvasWidth) \div 10,
       text |-> RoundDiv(pan + RoundDiv((k - 1) * VisibleDuration(duration, zoom), 10), 100) ]]

\* the drawing commands of one call of drawWaveform; trimStart and trimEnd
\* are never set, so their markers are never drawn
DrawWaveform(audio, kps, zoom, pan, playhead, showSpectrogram, now) ==
  IF audio = NullAudio THEN << >>
  ELSE << [op |-> "fillRect", fillStyle |-> "gradient", x |-> 0, y |-> 0,
           w |-> CanvasWidth, h |-> CanvasHeight] >>
       \o (IF showSpectrogram
             THEN SpectrogramBars(audio, zoom, pan)
             ELSE WaveformPath(audio, zoom, pan) \o << [op |-> "fill"] >>
                    \o WaveformPath(audio, zoom, pan) \o << [op |-> "stroke"] >>)
       \o DrawPlayhead(playhead, audio.duration, zoom, pan)
       \o DrawMarkers(kps, 1, audio.duration, zoom, pan, now)
       \o TimeMarkers(audio.duration, zoom, pan)

\* --------------------------------------------------------- handleCanvasClick
\* the loop of handleCanvasClick over keyPresses[i..]: the index of closestKey
\* (0 for null) given the closestKey and minDistance found so far
RECURSIVE ClosestFrom(_, _, _, _, _)
ClosestFrom(kps, i, clickTime, closest, minDistance) ==
  IF i > Len(kps) THEN closest
  ELSE LET distance == Abs(kps[i].time - clickTime)
       IN IF (closest = 0 \/ distance < minDistance) /\ distance < HitThreshold
            THEN ClosestFrom(kps, i + 1, clickTime, i, distance)
            ELSE ClosestFrom(kps, i + 1, clickTime, closest, minDistance)

\* the same loop with `distance <= minDistance`: the last of equally close events
RECURSIVE ClosestFromLastWins(_, _, _, _, _)
ClosestFromLastWins(kps, i, clickTime, closest, minDistance) ==
  IF i > Len(kps) THEN closest
  ELSE LET distance == Abs(kps[i].time - clickTime)
       IN IF (closest = 0 \/ distance <= minDistance) /\ distance < HitThreshold
            THEN ClosestFromLastWins(kps, i + 1, clickTime, i, distance)
            ELSE ClosestFromLastWins(kps, i + 1, clickTime, closest, minDistance)

ClosestKeyLastWins(kps, clickTime) == ClosestFromLastWins(kps, 1, clickTime, 0, 0)

\* closestKey after the loop: let closestKey = null, minDistance = Infinity
ClosestKey(kps, clickTime) == ClosestFrom(kps, 1, clickTime, 0, 0)

HandleCanvasClick(x) ==
  /\ audioData # NullAudio
  /\ LET clickTime == PixelToTime(x, audioData.duration, zoomLevel, panOffset)
         closestKey == ClosestKey(keyPresses, clickTime)
     IN IF closestKey # 0
          THEN /\ selectedKeyPresses' =
                    Toggle(selectedKeyPresses, keyPresses[closestKey].id)
               /\ keyPresses' = SetSelected(keyPresses,
                    Toggle(selectedKeyPresses, keyPresses[closestKey].id))
          ELSE UNCHANGED << selectedKeyPresses, keyPresses >>
  /\ toast' = NoToast
  /\ download' = NoDownload
  /\ thrown' = NoError
  /\ UNCHANGED << elapsed, audioContextRef, isRecording, audioData, viewVars, recVars,
                  decoding, nextId >>
  /\ UNCHANGED playVars

\* ------------------------------------------------------------ audioBufferToWav
Int16Max == 32767         \* 0x7fff

TruncDiv(n, d) == IF n >= 0 THEN n \div d ELSE -((-n) \div d)

\* DataView.setInt16 of a number: truncated to an integer, wrapped to 16 bits
ToInt16(n, d) == ((TruncDiv(n, d) + 32768) % 65536) - 32768

\* Math.max(-1, Math.min(1, samples[i])) * 0x7fff, written by setInt16
EncodeSampleFullScale(a) == ToInt16(Max(-AmpUnit, Min(AmpUnit, a)) * 32768, AmpUnit)
EncodeSample(a) == ToInt16(Max(-AmpUnit, Min(AmpUnit, a)) * Int16Max, AmpUnit)

\* writeString: the character codes of "RIFF", "WAVE", "fmt " and "data"
WriteString(string) ==
  CASE string = "RIFF" -> << 82, 73, 70, 70 >>
    [] string = "WAVE" -> << 87, 65, 86, 69 >>
    [] string = "fmt " -> << 102, 109, 116, 32 >>
    [] string = "data" -> << 100, 97, 116, 97 >>

\* view.setUint32(offset, n, true): four bytes, least significant first
SetUint32BigEndian(n) ==
  << (n \div 16777216) % 256, (n \div 65536) % 256, (n \div 256) % 256, n % 256 >>
SetUint32(n) ==
  << n % 256, (n \div 256) % 256, (n \div 65536) % 256, (n \div 16777216) % 256 >>

\* view.setUint16(offset, n, true)
SetUint16(n) == << n % 256, (n \div 256) % 256 >>

\* view.setInt16(offset, v, true) of the 16-bit value v: two's complement
SetInt16(v) == SetUint16((v + 65536) % 65536)

\* the bytes the sample loop writes from offset 44 on
SampleBytes(buffer) ==
  [k \in 1..(2 * buffer.length) |->
     SetInt16(EncodeSample(buffer.samples[(k + 1) \div 2]))[2 - (k % 2)]]

\* the ArrayBuffer of 44 + length * 2 bytes that audioBufferToWav fills
AudioBufferToWav(buffer) ==
  WriteString("RIFF") \o SetUint32(36 + buffer.length * 2) \o WriteString("WAVE")
    \o WriteString("fmt ") \o SetUint32(16) \o SetUint16(1) \o SetUint16(1)
    \o SetUint32(buffer.sampleRate) \o SetUint32(buffer.sampleRate * 2)
    \o SetUint16(2) \o SetUint16(16)
    \o WriteString("data") \o SetUint32(buffer.length * 2)
    \o SampleBytes(buffer)

\* ------------------------------------------------------ exportSelectedSegments
StartSample(kp, audio) == FloorSample(kp.startTime, audio.sampleRate)
EndSample(kp, audio) == FloorSample(kp.endTime, audio.sampleRate)
SegmentLength(kp, audio) == EndSample(kp, audio) - StartSample(kp, audio)

\* BaseAudioContext.createBuffer rejects a length that is not positive
CreateBufferThrows(length) == length <= 0

\* audioData.samples[index] || 0, index counted from 0
SampleOrZeroShifted(audio, index) ==
  IF index + 1 >= 0 /\ index + 1 < audio.length THEN audio.samples[index + 2] ELSE 0
SampleOrZero(audio, index) ==
  IF index >= 0 /\ index < audio.length THEN audio.samples[index + 1] ELSE 0

\* segmentBuffer after the copy loop
ExtractSegment(audio, kp) ==
  [ length |-> SegmentLength(kp, audio),
    sampleRate |-> audio.sampleRate,
    samples |-> [j \in 1..SegmentLength(kp, audio) |->
                   SampleOrZero(audio, StartSample(kp, audio) + (j - 1))] ]

\* `keypress_${key}_${time.toFixed(3)}s.wav`: the time keeps its milliseconds
Filename(kp) == << "keypress_", kp.key, "_", kp.time, "s.wav" >>

Metadata(kp) ==
  [ filename |-> Filename(kp),
    key |-> kp.key,
    code |-> kp.code,
    originalTime |-> kp.time,
    startTime |-> kp.startTime,
    endTime |-> kp.endTime,
    duration |-> kp.endTime - kp.startTime ]

\* zip.file(name, blob): an entry of the same name is replaced
ZipFile(zip, entry) ==
  IF \E i \in 1..Len(zip) : zip[i].filename = entry.filename
    THEN [i \in 1..Len(zip) |->
            IF zip[i].filename = entry.filename THEN entry ELSE zip[i]]
    ELSE Append(zip, entry)

\* keyPresses.filter((kp) => selectedKeyPresses.has(kp.id))
SelectedKeys(kps, ids) == SelectSeq(kps, LAMBDA kp : kp.id \in ids)

\* the for loop of exportSelectedSegments from index i on
RECURSIVE ExportLoop(_, _, _, _, _)
ExportLoop(audio, selectedKeys, i, zip, metadata) ==
  IF i > Len(selectedKeys) THEN [failed |-> FALSE, zip |-> zip, metadata |-> metadata]
  ELSE IF CreateBufferThrows(SegmentLength(selectedKeys[i], audio))
    THEN [failed |-> TRUE, zip |-> zip, metadata |-> metadata]
    ELSE ExportLoop(audio, selectedKeys, i + 1,
           ZipFile(zip, [ filename |-> Filename(selectedKeys[i]),
                          segment |-> ExtractSegment(audio, selectedKeys[i]),
                          wav |-> AudioBufferToWav(ExtractSegment(audio, selectedKeys[i])) ]),
           Append(metadata, Metadata(selectedKeys[i])))

\* the first test of exportSelectedSegments
NothingToExport == audioData = NullAudio \/ selectedKeyPresses = {}

\* an export that takes the samples out of the loaded buffer
ExportSelectedSegmentsInPlace ==
  /\ selectedKeyPresses # {}
  /\ audioData # NullAudio \/ ShortcutsActive
  /\ IF NothingToExport
       THEN /\ toast' = "No segments selected"
            /\ download' = NoDownload
            /\ thrown' = NoError
            /\ audioData' = audioData
       ELSE LET result == ExportLoop(audioData,
                             SelectedKeys(keyPresses, selectedKeyPresses), 1, <<>>, <<>>)
            IN IF result.failed
                 THEN /\ toast' = NoToast
                      /\ download' = NoDownload
                      /\ thrown' = "NotSupportedError"
                      /\ audioData' = audioData
                 ELSE /\ toast' = "Export complete"
                      /\ download' = [made |-> TRUE, files |-> result.zip,
                                      metadata |-> result.metadata]
                      /\ thrown' = NoError
                      /\ audioData' = [audioData EXCEPT
                                         !.samples = [i \in 1..audioData.length |-> 0]]
  /\ UNCHANGED << elapsed, audioContextRef, isRecording, keyPresses, selectedKeyPresses,
                  viewVars, recVars, decoding, nextId >>
  /\ UNCHANGED playVars

\* Export Selected (shown while a buffer is loaded, disabled while
\* selectedKeyPresses is empty) or Ctrl+S (only if selectedKeyPresses is not empty)
ExportSelectedSegments ==
  /\ selectedKeyPresses # {}
  /\ audioData # NullAudio \/ ShortcutsActive
  /\ IF NothingToExport
       THEN /\ toast' = "No segments selected"
            /\ download' = NoDownload
            /\ thrown' = NoError
       ELSE LET result == ExportLoop(audioData,
                             SelectedKeys(keyPresses, selectedKeyPresses), 1, <<>>, <<>>)
            IN IF result.failed
                 THEN /\ toast' = NoToast
                      /\ download' = NoDownload
                      /\ thrown' = "NotSupportedError"
                 ELSE /\ toast' = "Export complete"
                      /\ download' = [made |-> TRUE, files |-> result.zip,
                                      metadata |-> result.metadata]
                      /\ thrown' = NoError
  /\ UNCHANGED << elapsed, audioContextRef, session, nextId >>
  /\ UNCHANGED playVars

\* ----------------------------------------------------------------- playback
PlayTimes == {0, 100}

\* togglePlayback: the Play / Pause button, shown while a buffer is loaded, or
\* Ctrl+Space; then the effect on [isPlaying, updatePlayhead]
TogglePlayback ==
  /\ audioData # NullAudio
  /\ ~isPlaying => Cardinality(frameRequests) < MaxLoops
  /\ audioRef' = [audioRef EXCEPT !.playing = ~isPlaying]
  /\ isPlaying' = ~isPlaying
  /\ frameRequests' = PlayEffect(~isPlaying, frameRequests, animationFrameRef).requests
  /\ animationFrameRef' = PlayEffect(~isPlaying, frameRequests, animationFrameRef).handle
  /\ currentTime' = IF ~isPlaying THEN audioRef.currentTime ELSE currentTime
  /\ toast' = NoToast
  /\ download' = NoDownload
  /\ thrown' = NoError
  /\ UNCHANGED << elapsed, audioContextRef, session, nextId >>

\* the audio reaches its end: onEnded, then the effect
AudioEnded ==
  /\ audioData # NullAudio
  /\ audioRef.playing
  /\ audioRef' = [playing |-> FALSE, currentTime |-> audioData.duration]
  /\ isPlaying' = FALSE
  /\ frameRequests' = IF isPlaying
                        THEN PlayEffect(FALSE, frameRequests, animationFrameRef).requests
                        ELSE frameRequests
  /\ UNCHANGED << animationFrameRef, currentTime >>
  /\ toast' = NoToast
  /\ download' = NoDownload
  /\ thrown' = NoError
  /\ UNCHANGED << elapsed, audioContextRef, session, nextId >>

\* onTimeUpdate
TimeUpdate ==
  /\ audioData # NullAudio
  /\ currentTime' = audioRef.currentTime
  /\ UNCHANGED << isPlaying, audioRef, animationFrameRef, frameRequests >>
  /\ toast' = NoToast
  /\ download' = NoDownload
  /\ thrown' = NoError
  /\ UNCHANGED << elapsed, audioContextRef, session, nextId >>

\* the range input of the progress bar
Seek(time) ==
  /\ audioData # NullAudio
  /\ time <= audioData.duration
  /\ currentTime' = time
  /\ audioRef' = [audioRef EXCEPT !.currentTime = time]
  /\ UNCHANGED << isPlaying, animationFrameRef, frameRequests >>
  /\ toast' = NoToast
  /\ download' = NoDownload
  /\ thrown' = NoError
  /\ UNCHANGED << elapsed, audioContextRef, session, nextId >>

\* the Reset button of the progress bar
ResetPlayhead ==
  /\ audioData # NullAudio
  /\ currentTime' = 0
  /\ audioRef' = [audioRef EXCEPT !.currentTime = 0]
  /\ UNCHANGED << isPlaying, animationFrameRef, frameRequests >>
  /\ toast' = NoToast
  /\ download' = NoDownload
  /\ thrown' = NoError
  /\ UNCHANGED << elapsed, audioContextRef, session, nextId >>

\* the browser runs the frame callback of update loop l: updatePlayhead as the
\* loop's closure holds it (isPlaying true, a buffer loaded), which sets the
\* playhead, requests the next frame and stores its handle
AnimationFrame(l) ==
  /\ l \in frameRequests
  /\ currentTime' = audioRef.currentTime
  /\ animationFrameRef' = l
  /\ UNCHANGED << isPlaying, audioRef, frameRequests >>
  /\ toast' = NoToast
  /\ download' = NoDownload
  /\ thrown' = NoError
  /\ UNCHANGED << elapsed, audioContextRef, session, nextId >>

\* ------------------------------------------------------------ specifications
Next ==
  \/ Tick
  \/ StartRecording
  \/ GetUserMediaResolved
  \/ GetUserMediaRejected
  \/ StopRecording
  \/ \E r \in 1..Len(recorders) : OnStop(r)
  \/ \E job \in decoding : DecodeResolved(job)
  \/ \E job \in decoding : DecodeRejected(job)
  \/ \E file \in Files : HandleFileUpload(file)
  \/ \E k \in Keys : KeyDown(k)
  \/ \E k \in Keys : KeyDownRepeat(k)
  \/ \E k \in Keys : KeyUp(k)
  \/ SelectAllButton
  \/ SelectAllShortcut
  \/ ClearAllButton
  \/ DeselectAllShortcut
  \/ ClearSelectionButton
  \/ \E i \in 1..Len(keyPresses) : TimelineRowClick(i)
  \/ \E x \in ClickXs : HandleCanvasClick(x)
  \/ ExportSelectedSegments

Spec == Init /\ [][Next]_vars

\* The viewport of an uploaded buffer: uploads, zoom, pan and reset.
NextView ==
  \/ \E file \in ViewFiles : HandleFileUpload(file)
  \/ \E job \in decoding : DecodeResolved(job)
  \/ \E job \in decoding : DecodeRejected(job)
  \/ \E deltaYPositive \in BOOLEAN : HandleWheel(deltaYPositive)
  \/ ZoomInButton
  \/ ZoomOutButton
  \/ ResetView
  \/ \E clientX \in MouseXs : HandleMouseDown(clientX)
  \/ \E clientX \in MouseXs : HandleMouseMove(clientX)
  \/ HandleMouseUp

SpecView == Init /\ [][NextView]_vars

\* Playback of an uploaded buffer: uploads, play / pause, end of audio, seeks
\* and the frames of the playhead update loops.
NextPlay ==
  \/ \E file \in ViewFiles : HandleFileUpload(file)
  \/ \E job \in decoding : DecodeResolved(job)
  \/ \E job \in decoding : DecodeRejected(job)
  \/ TogglePlayback
  \/ AudioEnded
  \/ TimeUpdate
  \/ \E time \in PlayTimes : Seek(time)
  \/ ResetPlayhead
  \/ \E l \in frameRequests : AnimationFrame(l)

SpecPlay == Init /\ [][NextPlay]_vars

\* The drawn range of an uploaded buffer on a device that samples at 50 Hz:
\* uploads of a take of 30 samples and of the short file of 10, zooming in,
\* resetting the view and pan drags to the left.
DrawSampleRates == {50}
DrawFiles ==
  {[name |-> "take", type |-> "audio/wav", duration |-> 600, decodable |-> TRUE]}
    \cup {f \in Files : f.decodable}

InitDraw ==
  /\ elapsed = 0
  /\ audioContextRef \in [sampleRate : DrawSampleRates]
  /\ isRecording = FALSE
  /\ audioData = NullAudio
  /\ keyPresses = <<>>
  /\ selectedKeyPresses = {}
  /\ zoomLevel = ZoomMin * ZoomUnit
  /\ panOffset = 0
  /\ isDragging = FALSE
  /\ lastMouseX = 0
  /\ mediaRecorderRef = 0
  /\ pendingStarts = 0
  /\ recorders = <<>>
  /\ decoding = {}
  /\ nextId = 1
  /\ toast = NoToast
  /\ download = NoDownload
  /\ thrown = NoError
  /\ isPlaying = FALSE
  /\ currentTime = 0
  /\ audioRef = SilentAudio
  /\ animationFrameRef = 0
  /\ frameRequests = {}

NextDraw ==
  \/ \E file \in DrawFiles : HandleFileUpload(file)
  \/ \E job \in decoding : DecodeResolved(job)
  \/ ZoomInButton
  \/ ResetView
  \/ HandleMouseDown(600)
  \/ HandleMouseMove(0)

SpecDraw == InitDraw /\ [][NextDraw]_vars

\* Recording sessions whose asynchronous callbacks are scheduled fairly: the
\* event loop runs every queued onstop handler, and every decodeAudioData
\* promise settles.  The answer to the microphone prompt and the clicks are
\* the user's and carry no fairness.
NextLive ==
  \/ Tick
  \/ StartRecording
  \/ GetUserMediaResolved
  \/ GetUserMediaRejected
  \/ StopRecording
  \/ \E k \in Keys : KeyDown(k)
  \/ \E r \in 1..Len(recorders) : OnStop(r)
  \/ \E job \in decoding : DecodeResolved(job)
  \/ \E job \in decoding : DecodeRejected(job)

CallbackFairness ==
  /\ \A r \in 1..MaxRecorders : WF_vars(r <= Len(recorders) /\ OnStop(r))
  /\ WF_vars(\E job \in decoding : DecodeResolved(job) \/ DecodeRejected(job))

SpecLive == Init /\ [][NextLive]_vars /\ CallbackFairness

\* ------------------------------------------------------------------ claims
\* the events of the timeline whose selected flag is set
FlaggedIds == {keyPresses[i].id : i \in {n \in 1..Len(keyPresses) : keyPresses[n].selected}}

\* C1: whenever a buffer is loaded, the visible window lies inside the buffer:
\* panOffset >= 0 and panOffset + duration / zoomLevel <= duration, after any
\* wheel zoom, zoom button, Reset View, pan drag or buffer load.
C1_ViewportContained ==
  audioData # NullAudio =>
    /\ panOffset >= 0
    /\ panOffset + VisibleDuration(audioData.duration, zoomLevel) <= audioData.duration

\* C2: selectedKeyPresses is exactly the set of ids of the events of
\* keyPresses whose selected flag is true.
C2_SelectionMatchesFlags == selectedKeyPresses = FlaggedIds

\* C3: an export requested while no event of the current timeline is selected
\* reports "No segments selected" and hands no archive to the browser.  The
\* outputs are those of the last handler, and only exportSelectedSegments
\* raises "Export complete" or makes a download.
C3_EmptySelectionNoArchive ==
  (\A i \in 1..Len(keyPresses) :
      ~keyPresses[i].selected /\ keyPresses[i].id \notin selectedKeyPresses)
    => (~download.made /\ toast # "Export complete")

\* C5: with a buffer loaded and no recording active every event has
\* endTime <= audioData.duration; and every event has startTime >= 0, always.
C5_WindowInsideBuffer ==
  /\ (audioData # NullAudio /\ ~isRecording) =>
        \A i \in 1..Len(keyPresses) : keyPresses[i].endTime <= audioData.duration
  /\ \A i \in 1..Len(keyPresses) : keyPresses[i].startTime >= 0

\* C6: every event satisfies startTime <= time <= endTime, also after its
\* endTime was clamped to a buffer's duration.
C6_WindowAroundEvent ==
  \A i \in 1..Len(keyPresses) :
    /\ keyPresses[i].startTime <= keyPresses[i].time
    /\ keyPresses[i].time <= keyPresses[i].endTime

\* |e.time - t| for the i-th event of the timeline
Distance(i, t) == Abs(keyPresses[i].time - t)

\* the i-th event minimizes the distance to t and lies within the threshold
Minimizes(i, t) ==
  /\ Distance(i, t) < HitThreshold
  /\ \A j \in 1..Len(keyPresses) : Distance(i, t) <= Distance(j, t)

\* a canvas click left the selection as it was
SelectionKept == selectedKeyPresses' = selectedKeyPresses /\ keyPresses' = keyPresses

\* C4 as stated: a canvas click at time t changes the selection state of
\* event e iff e minimizes |e.time - t| and that minimum is below 0.1 s; with
\* no event within 0.1 s the click changes neither the ids nor any flag.
C4_EveryClosestToggled ==
  [][\A x \in ClickXs : HandleCanvasClick(x) =>
       LET t == PixelToTime(x, audioData.duration, zoomLevel, panOffset)
       IN /\ \A i \in 1..Len(keyPresses) :
               (keyPresses'[i].selected # keyPresses[i].selected) <=> Minimizes(i, t)
          /\ (\A i \in 1..Len(keyPresses) : Distance(i, t) >= HitThreshold)
                => SelectionKept]_vars

\* C4, amended: the click changes the selection state of e iff e is the
\* first event, in timeline order, among those that minimize |e.time - t|
\* with the minimum below 0.1 s, and it toggles exactly the id of that event;
\* with no event within 0.1 s nothing changes.  Events at 4.85 s and 5.05 s
\* and a click at 5.00 s: the second event is the one chosen.
C4_FirstClosestToggled ==
  /\ [](ClosestKey(<< [time |-> 4850], [time |-> 5050] >>, 5000) = 2)
  /\ [][\A x \in ClickXs : HandleCanvasClick(x) =>
          LET t == PixelToTime(x, audioData.duration, zoomLevel, panOffset)
              First(i) == Minimizes(i, t) /\ \A j \in 1..(i - 1) : ~Minimizes(j, t)
          IN /\ \A i \in 1..Len(keyPresses) :
                  /\ (keyPresses'[i].selected # keyPresses[i].selected) <=> First(i)
                  /\ First(i) => selectedKeyPresses' =
                                    Toggle(selectedKeyPresses, keyPresses[i].id)
             /\ (\A i \in 1..Len(keyPresses) : Distance(i, t) >= HitThreshold)
                   => SelectionKept]_vars

\* two events equally close to a click that the canvas offers, of which the
\* earlier one alone is selected
C4_TieClicked ==
  /\ audioData # NullAudio
  /\ \E x \in ClickXs : \E i, j \in 1..Len(keyPresses) :
       LET t == PixelToTime(x, audioData.duration, zoomLevel, panOffset)
       IN /\ i < j
          /\ Minimizes(i, t)
          /\ Minimizes(j, t)
          /\ \A k \in 1..(i - 1) : ~Minimizes(k, t)
          /\ keyPresses[i].selected
          /\ ~keyPresses[j].selected
          /\ selectedKeyPresses = {keyPresses[i].id}

\* the segment the claim describes for event e of the loaded buffer: the
\* samples from floor(e.startTime * sr) up to floor(e.endTime * sr), 0 where
\* the index lies outside the buffer
Described(e, segment) ==
  LET sr == audioData.sampleRate
      first == (e.startTime * sr) \div 1000
      n == ((e.endTime * sr) \div 1000) - first
  IN /\ segment.length = n
     /\ DOMAIN segment.samples = 1..n
     /\ \A j \in 0..(n - 1) :
          segment.samples[j + 1] =
            IF first + j >= 0 /\ first + j < Len(audioData.samples)
              THEN audioData.samples[first + j + 1]
              ELSE 0

C8_ExportNeverRaises ==
  /\ audioData # NullAudio =>
       \A i \in 1..Len(keyPresses) : SegmentLength(keyPresses[i], audioData) >= 0
  /\ thrown = NoError

\* C9: a recorder is stopped at most once and its onstop handler, with the
\* processAudioBlob call in it, runs at most once and only after the stop;
\* a recorder whose finalization is done was stopped once and processed
\* once.  stopRecording while no recording is active stops no recorder,
\* changes no state and raises nothing.
C9_FinalizedOnce ==
  /\ [](\A r \in 1..Len(recorders) :
          /\ recorders[r].stops <= 1
          /\ recorders[r].runs <= recorders[r].stops
          /\ (recorders[r].state = "inactive") <=> (recorders[r].stops = 1)
          /\ (recorders[r].onstop \in {"running", "done"}) <=> (recorders[r].runs = 1)
          /\ Cardinality({job \in decoding : job.src = "recorder" /\ job.rec = r})
               = (IF recorders[r].onstop = "running" THEN 1 ELSE 0))
  /\ [][(StopRecording /\ ~isRecording) =>
          /\ UNCHANGED << session, elapsed, nextId >>
          /\ toast' = NoToast
          /\ thrown' = NoError]_vars

\* a recording that was started, stopped and finalized, its buffer loaded
C9_RecordingFinalized ==
  \E r \in 1..Len(recorders) :
    /\ recorders[r].onstop = "done"
    /\ recorders[r].stops = 1
    /\ recorders[r].runs = 1
    /\ recorders[r].tracks = "stopped"
    /\ ~isRecording
    /\ audioData # NullAudio
    /\ audioData.samples[1] = DecodedSample(r, 0)

\* C10: while a recording is active, a key-down of Escape stops it: after the
\* handlers ran isRecording is false and the recorder is inactive.
C10_EscapeStopsRecording ==
  [][(isRecording /\ KeyDown(EscapeKey)) =>
       /\ ~isRecording'
       /\ recorders'[mediaRecorderRef].state = "inactive"]_vars

\* C11: whenever playback is not active (isPlaying is false) no playhead
\* update remains scheduled: the requestAnimationFrame loop of updatePlayhead
\* is cancelled when playback stops and does not go on rescheduling itself.
C11_NoDanglingUpdateLoop == ~isPlaying => frameRequests = {}

\* the event's endTime was cut by a clamp: it is no longer time + 0.5
Clamped(kp) == kp.endTime < kp.time + HalfWindow

\* C12: an event is clamped against at most one buffer: a buffer load that
\* finds events in the timeline that an earlier load has clamped discards
\* them (the timeline is reset) instead of keeping and re-clamping them.
\* Stated for the events that show the earlier clamp in their endTime.
C12_StaleEventsDiscarded ==
  [][\A job \in decoding :
       (DecodeResolved(job) /\ \E i \in 1..Len(keyPresses) : Clamped(keyPresses[i]))
         => keyPresses' = <<>>]_vars

\* C13: a recording start that succeeds clears the whole timeline: when
\* recording becomes active keyPresses is empty, and an event of an earlier
\* recording never appears again: every event in the timeline after a step
\* was in it before the step or has an id that was never used before.
C13_TimelineClearedAtStart ==
  /\ [][GetUserMediaResolved => (isRecording' /\ keyPresses' = <<>>)]_vars
  /\ [][(~isRecording /\ isRecording') => keyPresses' = <<>>]_vars
  /\ [][\A i \in 1..Len(keyPresses') :
          \/ keyPresses'[i].id \in Ids(keyPresses)
          \/ keyPresses'[i].id >= nextId]_vars
  /\ [](\A i \in 1..Len(keyPresses) : keyPresses[i].id < nextId)

\* a second recording whose timeline holds its own event only, the event of
\* the earlier recording being gone
C13_EarlierEventGone ==
  /\ Len(recorders) = 2
  /\ isRecording
  /\ recorders[1].state = "inactive"
  /\ nextId = 3
  /\ Len(keyPresses) = 1
  /\ keyPresses[1].id = 2

\* C14: keyPresses is in insertion order with non-decreasing event time, and
\* only the clear at a recording start removes or reorders entries: every
\* other step keeps the events it found, in their order, with their id, key
\* and time, and at most appends to them.
C14_TimelineOrdered ==
  /\ [](\A i, j \in 1..Len(keyPresses) : i < j => keyPresses[i].time <= keyPresses[j].time)
  /\ [][\/ GetUserMediaResolved
        \/ /\ Len(keyPresses') >= Len(keyPresses)
           /\ \A i \in 1..Len(keyPresses) :
                /\ keyPresses'[i].id = keyPresses[i].id
                /\ keyPresses'[i].key = keyPresses[i].key
                /\ keyPresses'[i].time = keyPresses[i].time]_vars

\* a timeline of two events at different times, the earlier one clamped by a
\* buffer load and selected
C14_OrderedAfterClampAndSelect ==
  /\ Len(keyPresses) = 2
  /\ keyPresses[1].time < keyPresses[2].time
  /\ Clamped(keyPresses[1])
  /\ keyPresses[1].selected
  /\ ~keyPresses[2].selected

\* C15: an event is appended to the timeline exactly when a key-down that is
\* not an auto-repeat is delivered while a recording is active: that key-down
\* appends one event with the key and the time of the key-down; an
\* auto-repeat key-down, a key-up and a key-down while not recording leave
\* the timeline as it is; and no other step makes the timeline grow.
C15_AppendOnKeyDownWhileRecording ==
  [][/\ \A k \in Keys :
          /\ (isRecording /\ KeyDown(k)) =>
                /\ Len(keyPresses') = Len(keyPresses) + 1
                /\ SubSeq(keyPresses', 1, Len(keyPresses)) = keyPresses
                /\ keyPresses'[Len(keyPresses')].key = k.key
                /\ keyPresses'[Len(keyPresses')].time = elapsed
          /\ (~isRecording /\ KeyDown(k)) => keyPresses' = keyPresses
          /\ KeyDownRepeat(k) => keyPresses' = keyPresses
          /\ KeyUp(k) => keyPresses' = keyPresses
     /\ Len(keyPresses') > Len(keyPresses) => (isRecording /\ \E k \in Keys : KeyDown(k))]_vars

\* a recording with two events logged at different times
C15_TwoEventsLogged ==
  /\ isRecording
  /\ Len(keyPresses) = 2
  /\ keyPresses[1].time = 0
  /\ keyPresses[2].time = elapsed
  /\ elapsed > 0

\* C16: capture and selection never act in the same phase: while a recording
\* is active no step changes selectedKeyPresses or the selected flag of an
\* event it keeps.
C16_NoSelectionWhileRecording ==
  [][isRecording =>
       /\ selectedKeyPresses' = selectedKeyPresses
       /\ \A i \in 1..Min(Len(keyPresses), Len(keyPresses')) :
            keyPresses'[i].selected = keyPresses[i].selected]_vars

\* v clamped to the zoom range [1, 20], on the grid of zoomLevel
InZoomRange(v) ==
  IF v < 1 * ZoomUnit THEN 1 * ZoomUnit ELSE IF v > 20 * ZoomUnit THEN 20 * ZoomUnit ELSE v

\* C17: zoomLevel lies in [1, 20] in every state; a wheel-down tick
\* multiplies it by 0.9, a wheel-up tick by 1.1, the zoom-in button by 1.2
\* and the zoom-out button by 1/1.2, each result clamped to [1, 20]; Reset
\* View sets it to 1.
C17_ZoomInRange ==
  /\ [](1 * ZoomUnit <= zoomLevel /\ zoomLevel <= 20 * ZoomUnit)
  /\ [][/\ HandleWheel(TRUE) => zoomLevel' = InZoomRange((2 * zoomLevel * 9 + 10) \div 20)
        /\ HandleWheel(FALSE) => zoomLevel' = InZoomRange((2 * zoomLevel * 11 + 10) \div 20)
        /\ ZoomInButton => zoomLevel' = InZoomRange((2 * zoomLevel * 12 + 10) \div 20)
        /\ ZoomOutButton => zoomLevel' = InZoomRange((2 * zoomLevel * 10 + 12) \div 24)
        /\ ResetView => zoomLevel' = 1 * ZoomUnit]_vars

\* the zoom at its upper limit, where a further zoom-in is clamped
C17_ZoomAtLimit == audioData # NullAudio /\ zoomLevel = 20 * ZoomUnit

\* C18: in every state in which zoomLevel is 1 panOffset is 0, whatever
\* zooms and pan drags led there.
C18_NoPanAtFullView == zoomLevel = 1 * ZoomUnit => panOffset = 0

\* the length of the visible window, duration / zoomLevel, in ms
WindowLength == (2 * audioData.duration * ZoomUnit + zoomLevel) \div (2 * zoomLevel)

\* v clamped to [lo, hi]
ClampTo(v, lo, hi) == IF v < lo THEN lo ELSE IF v > hi THEN hi ELSE v

\* C19: a mouse move to x during a drag sets panOffset to
\* clamp(prev - (dx / W) * (duration / zoomLevel), 0, duration - duration / zoomLevel)
\* with dx = x - lastMouseX and the zoom level of that moment; on a 10 s
\* buffer at zoomLevel 4 a request for 8 s yields 7.5 s; a mouse move while
\* no drag is in progress leaves panOffset unchanged.
C19_PanDragClamped ==
  /\ ClampPan(8 * MsPerSecond, 10 * MsPerSecond, 4 * ZoomUnit) = 7500
  /\ [][\A x \in MouseXs :
          HandleMouseMove(x) =>
            IF isDragging
              THEN panOffset' =
                     ClampTo(panOffset - RoundDiv((x - lastMouseX) * WindowLength, CanvasWidth),
                             0, audioData.duration - WindowLength)
              ELSE panOffset' = panOffset]_vars

\* a drag in a zoomed view that was stopped at the right end of the buffer
C19_DragStoppedAtEnd ==
  /\ audioData # NullAudio
  /\ isDragging
  /\ lastMouseX = 0
  /\ zoomLevel > 1 * ZoomUnit
  /\ panOffset > 0
  /\ panOffset = audioData.duration - WindowLength

\* the event's marker is drawn in the current view
MarkerDrawn(kp) == panOffset <= kp.time /\ kp.time <= panOffset + WindowLength

\* C20: the time-to-pixel mapping of the markers and the pixel-to-time
\* mapping of the click are inverse of one another in every viewport state:
\* a click on the pixel where an event's marker is shown yields that
\* event's time.
C20_ClickOnMarkerYieldsEventTime ==
  audioData # NullAudio =>
    \A i \in 1..Len(keyPresses) : \A rectWidth \in DisplayWidths :
      MarkerDrawn(keyPresses[i]) =>
        PixelToTime(MarkerClientX(keyPresses[i].time, audioData.duration, zoomLevel,
                                  panOffset, rectWidth),
                    audioData.duration, zoomLevel, panOffset) = keyPresses[i].time

\* the events of the timeline that are tied at the minimal distance from t
Tied(t) == {i \in 1..Len(keyPresses) : Minimizes(i, t)}

\* C21: when two or more events are at the same minimal distance (< 0.1 s)
\* from the click time, the hit-test picks the one that comes first in
\* timeline order, and that event's id is the one toggled.
C21_FirstOfTiedPicked ==
  [][\A x \in ClickXs :
       LET t == PixelToTime(x, audioData.duration, zoomLevel, panOffset)
       IN (Len(keyPresses) >= 2 /\ audioData # NullAudio /\ Cardinality(Tied(t)) >= 2
             /\ HandleCanvasClick(x)) =>
            \E i \in Tied(t) :
              /\ \A j \in Tied(t) : i <= j
              /\ ClosestKey(keyPresses, t) = i
              /\ selectedKeyPresses' = Toggle(selectedKeyPresses, keyPresses[i].id)
              /\ \A j \in 1..Len(keyPresses) :
                   keyPresses'[j].selected = (keyPresses[j].id \in selectedKeyPresses')]_vars

\* two events logged at the same instant, under a pixel the canvas offers,
\* of which a click has selected the first one only
C21_SameInstantFirstSelected ==
  /\ audioData # NullAudio
  /\ Len(keyPresses) = 2
  /\ keyPresses[1].time = keyPresses[2].time
  /\ \E x \in ClickXs :
       Tied(PixelToTime(x, audioData.duration, zoomLevel, panOffset)) = {1, 2}
  /\ selectedKeyPresses = {keyPresses[1].id}
  /\ keyPresses[1].selected
  /\ ~keyPresses[2].selected
  /\ ~isRecording

\* a step toggled the selection of the i-th event and of no other one, and
\* the same toggle applied once more gives back the selection before the step
ToggledOnly(i) ==
  LET id == keyPresses[i].id
  IN /\ Len(keyPresses') = Len(keyPresses)
     /\ keyPresses'[i].selected = ~keyPresses[i].selected
     /\ \A j \in 1..Len(keyPresses) :
          j # i => keyPresses'[j].selected = keyPresses[j].selected
     /\ (id \in selectedKeyPresses') = (id \notin selectedKeyPresses)
     /\ selectedKeyPresses' \ {id} = selectedKeyPresses \ {id}
     /\ Toggle(selectedKeyPresses', id) = selectedKeyPresses
     /\ SetSelected(keyPresses', Toggle(selectedKeyPresses', id)) = keyPresses

\* C22: on a hit-test match (and on a timeline row click) the matched
\* event's selection is toggled and the selection state of every other event
\* is unchanged; a second click matches the same event and restores the
\* selection that held before the first one.
C22_MatchToggled ==
  [][/\ \A x \in ClickXs :
          LET t == PixelToTime(x, audioData.duration, zoomLevel, panOffset)
          IN (Len(keyPresses) >= 1 /\ audioData # NullAudio
                /\ ClosestKey(keyPresses, t) # 0 /\ HandleCanvasClick(x)) =>
               /\ ToggledOnly(ClosestKey(keyPresses, t))
               /\ ClosestKey(keyPresses', t) = ClosestKey(keyPresses, t)
     /\ \A i \in 1..Len(keyPresses) : TimelineRowClick(i) => ToggledOnly(i)]_vars

\* two events at different times of which the later one alone is selected,
\* under a pixel of the canvas whose click matches it
C22_LaterEventSelected ==
  /\ audioData # NullAudio
  /\ ~isRecording
  /\ Len(keyPresses) = 2
  /\ keyPresses[1].time < keyPresses[2].time
  /\ ~keyPresses[1].selected
  /\ keyPresses[2].selected
  /\ selectedKeyPresses = {keyPresses[2].id}
  /\ \E x \in ClickXs :
       ClosestKey(keyPresses, PixelToTime(x, audioData.duration, zoomLevel, panOffset)) = 2

\* C23: when the decode of an upload or of a finished recording fails, the
\* failure notification is raised and audioData, the timeline with every
\* endTime, the selected ids and the viewport are what they were before.
C23_DecodeFailureKeepsSession ==
  [][\A job \in decoding :
       DecodeRejected(job) =>
         /\ toast' = "Audio processing failed"
         /\ audioData' = audioData
         /\ keyPresses' = keyPresses
         /\ selectedKeyPresses' = selectedKeyPresses
         /\ zoomLevel' = zoomLevel
         /\ panOffset' = panOffset]_vars

\* a failed decode reported while a buffer, a clamped event and a selection
\* are in the session
C23_FailureAfterLoadedSession ==
  /\ toast = "Audio processing failed"
  /\ audioData # NullAudio
  /\ Len(keyPresses) >= 1
  /\ Clamped(keyPresses[1])
  /\ selectedKeyPresses = {keyPresses[1].id}
  /\ decoding = {}

\* the declared types of WAV, MP3, OGG and FLAC files
AcceptedTypes == {"audio/wav", "audio/mp3", "audio/mpeg", "audio/ogg", "audio/flac"}

\* C24: an uploaded file whose declared type is not an accepted one is
\* rejected before any decode is attempted: no decode is ever in flight for
\* it, a notification is raised, and audioData, the timeline and the
\* selection are unchanged.
C24_InvalidTypeRejected ==
  /\ [](\A job \in decoding : job.src = "file" => job.type \in AcceptedTypes)
  /\ [][\A file \in Files :
          (file.type \notin AcceptedTypes /\ HandleFileUpload(file)) =>
            /\ decoding' = decoding
            /\ toast' = "Invalid file type"
            /\ audioData' = audioData
            /\ keyPresses' = keyPresses
            /\ selectedKeyPresses' = selectedKeyPresses]_vars

\* a file of another type turned down while a buffer, an event and a
\* selection are in the session
C24_RejectedWithLoadedSession ==
  /\ toast = "Invalid file type"
  /\ audioData # NullAudio
  /\ Len(keyPresses) >= 1
  /\ selectedKeyPresses = {keyPresses[1].id}
  /\ decoding = {}

\* C25: when getUserMedia rejects, startRecording raises the failure
\* notification, asks for the device no second time, creates no recorder,
\* and leaves isRecording (false stays false), audioData, the timeline and
\* the selection as they were.
C25_CaptureFailureKeepsSession ==
  [][GetUserMediaRejected =>
       /\ toast' = "Recording failed"
       /\ pendingStarts' < pendingStarts
       /\ recorders' = recorders
       /\ mediaRecorderRef' = mediaRecorderRef
       /\ isRecording' = isRecording
       /\ (~isRecording => ~isRecording')
       /\ audioData' = audioData
       /\ keyPresses' = keyPresses
       /\ selectedKeyPresses' = selectedKeyPresses]_vars

\* the microphone refused after an earlier recording left a buffer, an
\* event and a selection in the session
C25_RefusedAfterRecording ==
  /\ toast = "Recording failed"
  /\ ~isRecording
  /\ pendingStarts = 0
  /\ audioData # NullAudio
  /\ Len(keyPresses) >= 1
  /\ selectedKeyPresses = {keyPresses[1].id}

\* the unsigned little-endian numbers of 4 and 2 bytes found at an offset
\* (counted from 0) of a byte sequence
ReadUint32(bytes, offset) ==
  bytes[offset + 1] + 256 * bytes[offset + 2] + 65536 * bytes[offset + 3]
    + 16777216 * bytes[offset + 4]
ReadUint16(bytes, offset) == bytes[offset + 1] + 256 * bytes[offset + 2]

\* the header the claim describes for n samples at sample rate sr
WavHeader(bytes, n, sr) ==
  /\ Len(bytes) = 44 + 2 * n
  /\ \A k \in 1..Len(bytes) : bytes[k] \in 0..255
  /\ ReadUint32(bytes, 4) = 36 + 2 * n
  /\ ReadUint32(bytes, 16) = 16
  /\ ReadUint16(bytes, 20) = 1
  /\ ReadUint16(bytes, 22) = 1
  /\ ReadUint32(bytes, 24) = sr
  /\ ReadUint32(bytes, 28) = 2 * sr
  /\ ReadUint16(bytes, 32) = 2
  /\ ReadUint16(bytes, 34) = 16
  /\ ReadUint32(bytes, 40) = 2 * n

\* C26: for a mono buffer of N samples at sample rate sr audioBufferToWav
\* produces 44 + 2N bytes whose little-endian header holds RIFF chunk size
\* 36 + 2N, fmt chunk size 16, format tag 1, channel count 1, sample rate sr,
\* byte rate 2 sr, block align 2, bits per sample 16 and data chunk size 2N:
\* for three samples at 44100 Hz and for every file of every export.
C26_WavHeader ==
  /\ WavHeader(AudioBufferToWav([length |-> 3, sampleRate |-> 44100,
                                 samples |-> << 0, 500, -1000 >>]), 3, 44100)
  /\ download.made =>
       \A i \in 1..Len(download.files) :
         WavHeader(download.files[i].wav, download.files[i].segment.length,
                   audioData.sampleRate)

\* an archive whose one file encodes a full window of five samples
C26_FullWindowEncoded ==
  /\ download.made
  /\ Len(download.files) = 1
  /\ download.files[1].segment.length = 5
  /\ Len(download.files[1].wav) = 54

\* the signed little-endian 16-bit number at an offset of a byte sequence
ReadInt16(bytes, offset) ==
  IF ReadUint16(bytes, offset) >= 32768
    THEN ReadUint16(bytes, offset) - 65536
    ELSE ReadUint16(bytes, offset)

\* C27: for every sample s of an encoded buffer the 16-bit value written is
\* round(clamp(s, -1.0, 1.0) * 32767), as a signed little-endian integer.
C27_SampleRounded ==
  download.made =>
    \A i \in 1..Len(download.files) :
      \A j \in 1..download.files[i].segment.length :
        ReadInt16(download.files[i].wav, 44 + 2 * (j - 1)) =
          RoundDiv(ClampTo(download.files[i].segment.samples[j], -AmpUnit, AmpUnit) * 32767,
                   AmpUnit)

\* |v / 32767 - s| <= 1 / 32767 for a 16-bit value v decoded on the scale of
\* the encoding and a sample s given in units of 1 / AmpUnit
WithinQuantum(v, s) == Abs(v * AmpUnit - s * 32767) <= AmpUnit

SelectedEvents == SelectSeq(keyPresses, LAMBDA e : e.id \in selectedKeyPresses)

\* C29: a successful export with k selected events produces an archive of
\* exactly k audio files, one per selected event and in timeline order, each
\* named keypress_<key>_<time with 3 decimals>s.wav, and one metadata
\* document of exactly k entries, the i-th naming the i-th file and carrying
\* that event's key, code, time, startTime and endTime.
C29_OneFilePerSelectedEvent ==
  download.made =>
    /\ Len(download.files) = Len(SelectedEvents)
    /\ Len(download.metadata) = Len(SelectedEvents)
    /\ \A i \in 1..Len(SelectedEvents) :
         /\ i <= Len(download.files)
         /\ download.files[i].filename =
              << "keypress_", SelectedEvents[i].key, "_", SelectedEvents[i].time, "s.wav" >>
         /\ download.metadata[i].filename = download.files[i].filename
         /\ download.metadata[i].key = SelectedEvents[i].key
         /\ download.metadata[i].code = SelectedEvents[i].code
         /\ download.metadata[i].originalTime = SelectedEvents[i].time
         /\ download.metadata[i].startTime = SelectedEvents[i].startTime
         /\ download.metadata[i].endTime = SelectedEvents[i].endTime

\* C30: the loaded buffer is immutable: export, hit-testing and selection
\* (and, in the viewport specification, zoom and pan) never change
\* audioData.samples, sampleRate or duration; audioData changes only when a
\* decode installs a new buffer.
C30_BufferImmutable ==
  [][\/ audioData' = audioData
     \/ \E job \in decoding : DecodeResolved(job)]_vars

\* an export of two files from a one-second buffer that is not silent
C30_ExportedFromLoadedBuffer ==
  /\ download.made
  /\ Len(download.files) = 2
  /\ audioData.length = 5
  /\ \E i \in 1..audioData.length : audioData.samples[i] # 0
  /\ \E j \in 1..download.files[1].segment.length :
       download.files[1].segment.samples[j] # 0

\* C31: rendering is a pure function of the session state: two calls of
\* drawWaveform on the same buffer, timeline, zoomLevel, panOffset, playhead
\* time and mode flag produce the same sequence of drawing commands with the
\* same arguments, at whatever moments they are made.
C31_RenderingPure ==
  \A showSpectrogram \in BOOLEAN : \A now1, now2 \in DrawTimes :
    DrawWaveform(audioData, keyPresses, zoomLevel, panOffset, currentTime,
                 showSpectrogram, now1)
      = DrawWaveform(audioData, keyPresses, zoomLevel, panOffset, currentTime,
                     showSpectrogram, now2)

\* C32: a decode that completes for an earlier recording after a newer
\* recording has started never installs the earlier recording's buffer as
\* audioData and never clamps the newer recording's events to the earlier
\* recording's duration.
C32_LateDecodeDiscarded ==
  [][\A job \in decoding :
       (job.src = "recorder" /\ job.rec < Len(recorders) /\ DecodeResolved(job)) =>
         /\ audioData' = audioData
         /\ keyPresses' = keyPresses]_vars

\* the recorders that are capturing
Capturing == {r \in 1..Len(recorders) : recorders[r].state = "recording"}

\* C33: at most one recorder is capturing at any time, no started
\* MediaRecorder is left running without being referenced by
\* mediaRecorderRef, and after stopRecording has acted no recorder remains in
\* the recording state, for every interleaving of start requests.
C33_OneRecorderStoppable ==
  /\ [](Cardinality(Capturing) <= 1)
  /\ [](\A r \in Capturing : mediaRecorderRef = r)
  /\ [][(StopRecording /\ StopGuard) => Capturing' = {}]_vars

\* C34: in one export distinct selected events always get distinct archive
\* file names: for any two different selected events of any reachable
\* timeline the name built from the key and the time with 3 decimals differs.
C34_DistinctFileNames ==
  \A i, j \in 1..Len(keyPresses) :
    (i # j /\ keyPresses[i].id \in selectedKeyPresses
           /\ keyPresses[j].id \in selectedKeyPresses)
      => Filename(keyPresses[i]) # Filename(keyPresses[j])

\* C35: in every viewport and buffer state every sample index the renderer
\* reads for a pixel column x in [0, width), startSample +
\* floor((x / width) * visibleSamples), lies in [0, samples.length) and in
\* [startSample, endSample).
C35_ColumnsInsideRange ==
  audioData # NullAudio =>
    LET startSample == DrawStartSample(audioData, panOffset)
        endSample == DrawEndSample(audioData, zoomLevel, panOffset)
        visibleSamples == VisibleSamples(audioData, zoomLevel, panOffset)
    IN \A x \in 0..(CanvasWidth - 1) :
         ColumnReads(x, startSample, visibleSamples, audioData.length) =>
           LET sampleIndex == SampleIndex(x, startSample, visibleSamples)
           IN /\ 0 <= sampleIndex
              /\ sampleIndex < audioData.length
              /\ startSample <= sampleIndex
              /\ sampleIndex < endSample

\* C35, amended: every index read lies in [0, samples.length); it lies in
\* [startSample, endSample) when the drawn range holds a sample
\* (endSample > startSample), it is startSample when the range holds none
\* (endSample = startSample), and no column reads when startSample lies
\* behind endSample.
C35_ColumnsInsideBuffer ==
  audioData # NullAudio =>
    LET startSample == DrawStartSample(audioData, panOffset)
        endSample == DrawEndSample(audioData, zoomLevel, panOffset)
        visibleSamples == VisibleSamples(audioData, zoomLevel, panOffset)
    IN \A x \in 0..(CanvasWidth - 1) :
         ColumnReads(x, startSample, visibleSamples, audioData.length) =>
           LET sampleIndex == SampleIndex(x, startSample, visibleSamples)
           IN /\ 0 <= sampleIndex
              /\ sampleIndex < audioData.length
              /\ endSample >= startSample
              /\ endSample > startSample =>
                   /\ startSample <= sampleIndex
                   /\ sampleIndex < endSample
              /\ endSample = startSample => sampleIndex = startSample

\* a zoomed-in, panned view whose last column reads the last sample of a
\* drawn range of several samples
C35_Witness ==
  /\ audioData # NullAudio
  /\ zoomLevel > ZoomMin * ZoomUnit
  /\ panOffset > 0
  /\ DrawStartSample(audioData, panOffset) > 0
  /\ VisibleSamples(audioData, zoomLevel, panOffset) > 1
  /\ ColumnReads(CanvasWidth - 1, DrawStartSample(audioData, panOffset),
                 VisibleSamples(audioData, zoomLevel, panOffset), audioData.length)
  /\ SampleIndex(CanvasWidth - 1, DrawStartSample(audioData, panOffset),
                 VisibleSamples(audioData, zoomLevel, panOffset))
       = DrawEndSample(audioData, zoomLevel, panOffset) - 1

\* recorder r was stopped; its onstop handler has finished and released the
\* microphone tracks
Stopped(r) == r <= Len(recorders) /\ recorders[r].state = "inactive"
Released(r) ==
  r <= Len(recorders) /\ recorders[r].onstop = "done" /\ recorders[r].tracks = "stopped"

\* the two outcomes of the step that finishes the onstop handler of job's
\* recorder
InstalledClamped(job) ==
  /\ audioData' = DecodedAudio(job)
  /\ Len(keyPresses') = Len(keyPresses)
  /\ \A i \in 1..Len(keyPresses') : keyPresses'[i].endTime <= audioData'.duration
FailureNotified == toast' = "Audio processing failed"

\* C36: with fair scheduling of the asynchronous callbacks every recording
\* that is stopped eventually has its onstop handler finished and its
\* microphone tracks released; the handler runs once, and the step that
\* finishes it has exactly one of two outcomes: the buffer decoded from the
\* recording is installed and every event's endTime is at most its duration,
\* or the processing-failure notification is raised.
C36_StoppedRecordingSettles ==
  /\ \A r \in 1..MaxRecorders : Stopped(r) ~> Released(r)
  /\ [](\A r \in 1..Len(recorders) : recorders[r].runs <= 1)
  /\ [][\A job \in decoding :
          (job.src = "recorder" /\ recorders'[job.rec].onstop = "done")
            => /\ recorders'[job.rec].tracks = "stopped"
               /\ InstalledClamped(job) # FailureNotified]_vars

\* a stopped recording whose buffer is installed, with an event whose endTime
\* the installation cut, its handler finished and its tracks released
C36_Witness ==
  \E r \in 1..Len(recorders) :
    /\ Stopped(r)
    /\ Released(r)
    /\ audioData # NullAudio
    /\ audioData.samples = [i \in 1..audioData.length |-> DecodedSample(r, i - 1)]
    /\ \E i \in 1..Len(keyPresses) :
         Clamped(keyPresses[i]) /\ keyPresses[i].endTime = audioData.duration

====
